---- MODULE Spec2Model ----
(* Model of SceneGraph ui/settings.py: class Settings(QtCore.QSettings).   *)
(* The QSettings store is a map from absolute keys (sequences of path      *)
(* segments) to values; groups and arrays are key prefixes, as in Qt.      *)
EXTENDS Integers, Sequences, FiniteSets, TLC

(* ---------------------------------------------------------------- bounds *)
NumPaths == 3
NumGeoms == 2
NumStates == 2
NumPrefValues == 2
MaxMaxFiles == 2
MaxGroupDepth == 2

\* stored values are QVariants: a type tag and a payload
QInt(n) == [kind |-> "int", v |-> n]
QStr(s) == [kind |-> "str", v |-> s]
None == [kind |-> "None", v |-> 0]

PathNames == <<"a.json", "b.json", "c.json", "d.json", "e.json", "f.json">>
Paths == {QStr(PathNames[i]) : i \in 1..NumPaths}
\* the stored array can only outgrow the number of distinct paths if an add
\* duplicates; the guard of AddRecentFile stops there
MaxStored == NumPaths + 1

Geoms == 1..NumGeoms
WinStates == 1..NumStates
PrefValues == {QInt(n) : n \in 1..NumPrefValues}
DockNames == {"dockA"}
Layouts == {"L1", "L2"}
Options == {"opt1", "opt2"}
\* default of the max_files parameter of Settings.__init__
DefaultMaxFiles == 10

VARIABLES pc, store, groupStack, parent, docks, max_files,
          winGeom, winState, dockGeom, last

vars == <<pc, store, groupStack, parent, docks, max_files,
          winGeom, winState, dockGeom, last>>

(* ------------------------------------------------- QSettings primitives *)
Range(s) == {s[i] : i \in DOMAIN s}

RECURSIVE Reverse(_)
Reverse(s) == IF s = <<>> THEN <<>> ELSE Append(Reverse(Tail(s)), Head(s))

IsPrefix(p, k) == Len(p) <= Len(k) /\ SubSeq(k, 1, Len(p)) = p

\* QString::number(i) for the array index segment of a key
Digits == <<"1", "2", "3", "4", "5", "6", "7", "8", "9">>
Num(i) == Digits[i]

\* QSettings.group(): the concatenation of the open groups
RECURSIVE group(_)
group(stack) == IF stack = <<>> THEN <<>> ELSE Head(stack) \o group(Tail(stack))

\* QSettings.allKeys(): keys below the current group, relative to it
allKeys(st, P) ==
    {SubSeq(k, Len(P) + 1, Len(k)) :
        k \in {x \in DOMAIN st : IsPrefix(P, x) /\ Len(x) > Len(P)}}

\* QSettings.childGroups(): first segments of keys that have a child
childGroups(st, P) == {k[1] : k \in {x \in allKeys(st, P) : Len(x) >= 2}}

setValue(st, P, k, v) ==
    [x \in DOMAIN st \cup {P \o k} |-> IF x = P \o k THEN v ELSE st[x]]

value(st, P, k) == IF P \o k \in DOMAIN st THEN st[P \o k] ELSE None

\* QSettings.remove(key): the key and everything below it
remove(st, P, k) == [x \in {y \in DOMAIN st : ~IsPrefix(P \o k, y)} |-> st[x]]

\* QVariant.toInt() of the array's size entry (0 when absent)
toInt(x) == IF x.kind = "int" THEN x.v ELSE 0
beginReadArray(st, P, prefix) == toInt(value(st, P, prefix \o <<"size">>))

(* ------------------------------------------------------------ widgets *)
\* QWidget.saveGeometry / QMainWindow.saveState: an opaque typed blob
saveGeometry(g) == [kind |-> "geometry", v |-> g]
saveState(s) == [kind |-> "state", v |-> s]
\* QWidget.restoreGeometry(blob): applies the blob only if it is a geometry blob
restoreGeometry(cur, blob) ==
    IF blob \in [kind : {"geometry"}, v : Geoms] THEN blob.v ELSE cur
restoreState(cur, blob) ==
    IF blob \in [kind : {"state"}, v : WinStates] THEN blob.v ELSE cur

Call(op, arg, exc, ret, calls) ==
    [op |-> op, arg |-> arg, exc |-> exc, ret |-> ret, calls |-> calls]

(* ---------------------------------------------------------- recent files *)
\* Settings.getRecentFiles
getRecentFiles(st, P) ==
    [i \in 1..beginReadArray(st, P, <<"RecentFiles">>) |->
        value(st, P, <<"RecentFiles", Num(i), "file">>)]

\* Python slice s[:n]
PySlice(s, n) ==
    IF n >= 0 THEN SubSeq(s, 1, IF n < Len(s) THEN n ELSE Len(s))
    ELSE SubSeq(s, 1, IF Len(s) + n > 0 THEN Len(s) + n ELSE 0)

recent_files_sliceFirst(st, P, n) == Reverse(PySlice(getRecentFiles(st, P), n))
\* Settings.recent_files
recent_files(st, P, n) == PySlice(Reverse(getRecentFiles(st, P)), n)

WithoutFile_keep(files, filename) == files
\* addRecentFile: drop the path from the tuple when it is already there
WithoutFile(files, filename) ==
    IF filename \in Range(files)
    THEN SelectSeq(files, LAMBDA x : x # filename)
    ELSE files

\* the setArrayIndex(i) / setValue('file', ...) loop of addRecentFile
RECURSIVE WriteArray(_, _, _, _)
WriteArray(st, P, files, i) ==
    IF i > Len(files) THEN st
    ELSE WriteArray(setValue(st, P, <<"RecentFiles", Num(i), "file">>, files[i]),
                    P, files, i + 1)

\* the store after Settings.addRecentFile(filename)
addRecentFile(st, P, filename) ==
    LET files == Append(WithoutFile(getRecentFiles(st, P), filename), filename)
        \* beginWriteArray without a size removes the size entry
        st1 == remove(st, P \o <<"RecentFiles">>, <<"size">>)
        st2 == WriteArray(st1, P, files, 1)
    IN  \* endArray writes the highest index set as the size
        setValue(st2, P, <<"RecentFiles", "size">>, QInt(Len(files)))

(* --------------------------------------------------------------- Init *)
\* possible contents of the settings file before construction
PrefFiles ==
    UNION {[S -> PrefValues] : S \in SUBSET Options}

\* a file without a Preferences group, and one with it
SomePrefFiles == {f \in PrefFiles : DOMAIN f = {} \/ (DOMAIN f = Options /\ \A o \in Options : f[o] = QInt(1))}

FileOf(prefs) ==
    [k \in {<<"Preferences", "default", o>> : o \in DOMAIN prefs} |->
        prefs[k[3]]]

\* a settings file, a parent window freshly laid out, and max_files
InitWith(PrefSet, ParentSet, DockSets, MaxSet) ==
    /\ pc = "new"
    /\ \E prefs \in PrefSet : store = FileOf(prefs)
    /\ groupStack = <<>>
    /\ parent \in ParentSet
    /\ docks \in (IF parent THEN DockSets ELSE {<<>>})
    /\ max_files \in MaxSet
    /\ winGeom = 1
    /\ winState = 1
    /\ dockGeom = [d \in Range(docks) |-> 1]
    /\ last = Call("none", None, "none", None, {})

(* ---------------------------------------------------------- constructor *)
\* Settings.initialize, up to the call of initializePreferences
initialize(st) ==
    LET st1 == IF "MainWindow" \notin childGroups(st, <<>>) /\ parent
               THEN setValue(setValue(st, <<>>, <<"MainWindow", "geometry", "default">>,
                                      saveGeometry(winGeom)),
                             <<>>, <<"MainWindow", "windowState", "default">>,
                             saveState(winState))
               ELSE st
    IN  IF "RecentFiles" \notin childGroups(st1, <<>>)
        THEN setValue(st1, <<>>, <<"RecentFiles", "size">>, QInt(0))
        ELSE st1

\* Settings.__init__: initialize, then initializePreferences.  The module
\* never imports `options`, so the branch that reads it raises NameError.
\* last.arg records whether the file had a Preferences group.
Construct ==
    /\ pc = "new"
    /\ store' = initialize(store)
    /\ IF "Preferences" \notin childGroups(store', <<>>)
       THEN /\ pc' = "failed"
            /\ groupStack' = <<<<"Preferences">>>>
            /\ last' = Call("__init__", FALSE, "NameError", None, {})
       ELSE /\ pc' = "ready"
            /\ groupStack' = <<>>
            /\ last' = Call("__init__", TRUE, "none", None, {})
    /\ UNCHANGED <<parent, docks, max_files, winGeom, winState, dockGeom>>

(* ------------------------------------------------- recent-file actions *)
AddRecentFile(filename) ==
    /\ pc = "ready"
    /\ Len(getRecentFiles(store, group(groupStack))) < MaxStored
    /\ store' = addRecentFile(store, group(groupStack), filename)
    /\ last' = Call("addRecentFile", filename, "none",
                    getRecentFiles(store, group(groupStack)), {})
    /\ UNCHANGED <<pc, groupStack, parent, docks, max_files, winGeom, winState, dockGeom>>

\* Settings.clearRecentFiles
ClearRecentFiles ==
    /\ pc = "ready"
    /\ store' = remove(store, group(groupStack), <<"RecentFiles">>)
    /\ last' = Call("clearRecentFiles", None, "none", None, {})
    /\ UNCHANGED <<pc, groupStack, parent, docks, max_files, winGeom, winState, dockGeom>>

InitRecent == InitWith(SomePrefFiles, BOOLEAN, {<<>>}, 0..MaxMaxFiles)

NextRecent ==
    \/ Construct
    \/ \E f \in Paths : AddRecentFile(f)
    \/ ClearRecentFiles

SpecRecent == InitRecent /\ [][NextRecent]_vars

(* ------------------------------------------------------------- layouts *)
\* Settings.window_keys; docks is parent.findChildren(QDockWidget) in order
window_keys == IF ~parent THEN <<>> ELSE <<"MainWindow">> \o docks

\* the setValue loop over the dock widgets in saveLayout
RECURSIVE SaveDocks(_, _, _, _)
SaveDocks(st, P, layout, i) ==
    IF i > Len(docks) THEN st
    ELSE SaveDocks(setValue(st, P, <<docks[i], "geometry", layout>>,
                            saveGeometry(dockGeom[docks[i]])),
                   P, layout, i + 1)

\* Settings.saveLayout
saveLayout(layout) ==
    /\ pc = "ready"
    /\ IF ~parent
       THEN \* self._parent is None: None.saveGeometry()
            /\ last' = Call("saveLayout", layout, "AttributeError", None, {})
            /\ UNCHANGED store
       ELSE LET P == group(groupStack)
                st1 == setValue(store, P, <<"MainWindow", "geometry", layout>>,
                                saveGeometry(winGeom))
                st2 == setValue(st1, P, <<"MainWindow", "windowState", layout>>,
                                saveState(winState))
            IN  /\ store' = SaveDocks(st2, P, layout, 1)
                /\ last' = Call("saveLayout", layout, "none", None, {})
    /\ UNCHANGED <<pc, groupStack, parent, docks, max_files, winGeom, winState, dockGeom>>

Unbound == [kind |-> "unbound"]

\* one iteration of the loop of restoreLayout; r carries the widgets, the
\* local variable `value`, the exception raised and the widgets restored
RestoreStep(r, P, layout, widget_name) ==
    LET key_name == <<widget_name, "geometry", layout>>
        window_state == <<widget_name, "windowState", layout>>
    IN  IF r.exc # "none" THEN r
        ELSE IF widget_name # "MainWindow"
        THEN \* dock[0].restoreGeometry(value): `value` is the local of the
             \* MainWindow branch
             IF r.value = Unbound
             THEN [r EXCEPT !.exc = "UnboundLocalError"]
             ELSE [r EXCEPT !.dg[widget_name] = restoreGeometry(@, r.value),
                            !.calls = @ \cup {widget_name}]
        ELSE LET r1 == IF key_name \in allKeys(store, P)
                       THEN [r EXCEPT !.value = value(store, P, key_name),
                                      !.wg = restoreGeometry(@, value(store, P, key_name)),
                                      !.calls = @ \cup {"MainWindow"}]
                       ELSE r
             IN  IF window_state \in allKeys(store, P)
                 THEN [r1 EXCEPT !.ws = restoreState(@, value(store, P, window_state)),
                                 !.calls = @ \cup {"MainWindow"}]
                 ELSE r1

RECURSIVE RestoreLoop(_, _, _, _, _)
RestoreLoop(r, P, layout, keys, i) ==
    IF i > Len(keys) THEN r
    ELSE RestoreLoop(RestoreStep(r, P, layout, keys[i]), P, layout, keys, i + 1)

\* Settings.restoreLayout
restoreLayout(layout) ==
    /\ pc = "ready"
    /\ LET r == RestoreLoop([wg |-> winGeom, ws |-> winState, dg |-> dockGeom,
                              value |-> Unbound, exc |-> "none", calls |-> {}],
                             group(groupStack), layout, window_keys, 1)
       IN  /\ winGeom' = r.wg
           /\ winState' = r.ws
           /\ dockGeom' = r.dg
           /\ last' = Call("restoreLayout", layout, r.exc, None, r.calls)
    /\ UNCHANGED <<pc, store, groupStack, parent, docks, max_files>>

RECURSIVE DeleteLoop(_, _, _, _, _)
DeleteLoop(st, P, layout, keys, i) ==
    IF i > Len(keys) THEN st
    ELSE LET st1 == IF <<keys[i], "geometry", layout>> \in allKeys(st, P)
                    THEN remove(st, P, <<keys[i], "geometry", layout>>)
                    ELSE st
             st2 == IF keys[i] = "MainWindow"
                       /\ <<keys[i], "windowState", layout>> \in allKeys(st1, P)
                    THEN remove(st1, P, <<keys[i], "windowState", layout>>)
                    ELSE st1
         IN  DeleteLoop(st2, P, layout, keys, i + 1)

\* Settings.deleteLayout
deleteLayout(layout) ==
    /\ pc = "ready"
    /\ store' = DeleteLoop(store, group(groupStack), layout, window_keys, 1)
    /\ last' = Call("deleteLayout", layout, "none", None, {})
    /\ UNCHANGED <<pc, groupStack, parent, docks, max_files, winGeom, winState, dockGeom>>

\* the user moves, resizes or rearranges a widget between two calls: what
\* saveGeometry() / saveState() will read next
MoveWindow(g) ==
    /\ pc = "ready" /\ parent /\ g # winGeom
    /\ winGeom' = g
    /\ last' = Call("move", "MainWindow", "none", None, {})
    /\ UNCHANGED <<pc, store, groupStack, parent, docks, max_files, winState, dockGeom>>

ChangeWindowState(s) ==
    /\ pc = "ready" /\ parent /\ s # winState
    /\ winState' = s
    /\ last' = Call("move", "MainWindow", "none", None, {})
    /\ UNCHANGED <<pc, store, groupStack, parent, docks, max_files, winGeom, dockGeom>>

MoveDock(d, g) ==
    /\ pc = "ready" /\ d \in Range(docks) /\ g # dockGeom[d]
    /\ dockGeom' = [dockGeom EXCEPT ![d] = g]
    /\ last' = Call("move", d, "none", None, {})
    /\ UNCHANGED <<pc, store, groupStack, parent, docks, max_files, winGeom, winState>>

DockSeqs == {<<>>, <<"dockA">>}

InitLayout == InitWith(SomePrefFiles, BOOLEAN, DockSeqs, {DefaultMaxFiles})

NextLayout ==
    \/ Construct
    \/ \E l \in Layouts : saveLayout(l)
    \/ \E l \in Layouts : restoreLayout(l)
    \/ \E l \in Layouts : deleteLayout(l)
    \/ \E g \in Geoms : MoveWindow(g)
    \/ \E s \in WinStates : ChangeWindowState(s)
    \/ \E d \in DockNames, g \in Geoms : MoveDock(d, g)

SpecLayout == InitLayout /\ [][NextLayout]_vars

(* ------------------------------------------------- groups and defaults *)
GroupNames == {<<"Preferences">>, <<"Mainwindow", "default">>}

\* QSettings.beginGroup, called on the Settings object by its user
beginGroup(prefix) ==
    /\ pc = "ready"
    /\ Len(groupStack) < MaxGroupDepth
    /\ groupStack' = Append(groupStack, prefix)
    /\ last' = Call("beginGroup", prefix, "none", None, {})
    /\ UNCHANGED <<pc, store, parent, docks, max_files, winGeom, winState, dockGeom>>

\* QSettings.endGroup: pops one group; only a warning when none is open
PopGroup(stack) == IF stack = <<>> THEN stack ELSE SubSeq(stack, 1, Len(stack) - 1)

endGroup ==
    /\ pc = "ready"
    /\ groupStack' = PopGroup(groupStack)
    /\ last' = Call("endGroup", None, "none", None, {})
    /\ UNCHANGED <<pc, store, parent, docks, max_files, winGeom, winState, dockGeom>>

\* Settings.save
save(key) ==
    /\ pc = "ready"
    /\ Len(groupStack) < MaxGroupDepth
    /\ IF ~parent
       THEN \* self._parent.width() on None, after beginGroup
            /\ groupStack' = Append(groupStack, <<"Mainwindow", key>>)
            /\ last' = Call("save", key, "AttributeError", None, {})
            /\ UNCHANGED store
       ELSE LET P == group(Append(groupStack, <<"Mainwindow", key>>))
                st1 == setValue(store, P, <<"size">>, [kind |-> "size", v |-> winGeom])
                st2 == setValue(st1, P, <<"pos">>, [kind |-> "pos", v |-> winGeom])
            IN  /\ store' = setValue(st2, P, <<"windowState">>, saveState(winState))
                /\ groupStack' = groupStack
                /\ last' = Call("save", key, "none", None, {})
    /\ UNCHANGED <<pc, parent, docks, max_files, winGeom, winState, dockGeom>>

endOnce(stack) == PopGroup(stack)
\* getDefaultValue: `if self.group(): self.endGroup()`
LeaveGroup(stack) == IF group(stack) # <<>> THEN endOnce(stack) ELSE stack

\* getDefaultValue: the lookup of groups/default/key once the group is left
DefaultValueOf(st, stack, key, groups) ==
    LET group_name == groups \o <<"default", key>>
        P == group(LeaveGroup(stack))
    IN  IF group_name \in allKeys(st, P) THEN value(st, P, group_name) ELSE None

\* Settings.getDefaultValue(key, *groups)
getDefaultValue(key, groups) ==
    /\ pc = "ready"
    /\ groupStack' = LeaveGroup(groupStack)
    /\ IF groups = <<>>
       THEN \* groups[0]
            last' = Call("getDefaultValue", <<key, groups>>, "IndexError", None, {})
       ELSE last' = Call("getDefaultValue", <<key, groups>>, "none",
                         DefaultValueOf(store, groupStack, key, groups), {})
    /\ UNCHANGED <<pc, store, parent, docks, max_files, winGeom, winState, dockGeom>>

DefaultKeys == Options \cup {"size"}
GroupArgs == {<<>>, <<"Preferences">>, <<"Mainwindow">>}

InitPrefs == InitWith(PrefFiles, BOOLEAN, {<<>>}, {DefaultMaxFiles})

NextPrefs ==
    \/ Construct
    \/ \E g \in GroupNames : beginGroup(g)
    \/ endGroup
    \/ save("default")
    \/ \E k \in DefaultKeys, gs \in GroupArgs : getDefaultValue(k, gs)

SpecPrefs == InitPrefs /\ [][NextPrefs]_vars

(* -------------------------------------------------------------- claims *)
\* options.SCENEGRAPH_PREFERENCES: the declared preference options
SCENEGRAPH_PREFERENCES ==
    [o \in Options |-> IF o = "opt1" THEN [default |-> QInt(1)]
                       ELSE [default |-> QInt(2)]]

Files == getRecentFiles(store, group(groupStack))

\* C1: addRecentFile(p) for a path p already stored moves p to the last
\* position: the list then ends with p, holds p once, keeps its length and
\* the relative order of the other paths; the stored list never holds a
\* duplicate.
C1_MoveToMostRecent ==
    pc = "ready" =>
        /\ \A i, j \in DOMAIN Files : i # j => Files[i] # Files[j]
        /\ (last.op = "addRecentFile" /\ last.arg \in Range(last.ret)) =>
              /\ Len(Files) = Len(last.ret)
              /\ Files[Len(Files)] = last.arg
              /\ Cardinality({i \in DOMAIN Files : Files[i] = last.arg}) = 1
              /\ SelectSeq(Files, LAMBDA x : x # last.arg)
                    = SelectSeq(last.ret, LAMBDA x : x # last.arg)

\* C1 witness: a stored path that was not the most recent one is added again
C1_Witness ==
    /\ pc = "ready"
    /\ last.op = "addRecentFile"
    /\ Len(last.ret) >= 3
    /\ last.arg = last.ret[1]

\* C2: after any sequence of addRecentFile calls with max_files = N the
\* list of getRecentFiles() is most-recent-last and no longer than N.
C2_OrderedAndCapped ==
    pc = "ready" =>
        /\ Len(Files) <= max_files
        /\ last.op = "addRecentFile" => Files[Len(Files)] = last.arg

StoredLayout(l) ==
    \E k \in allKeys(store, group(groupStack)) :
        Len(k) = 3 /\ k[2] \in {"geometry", "windowState"} /\ k[3] = l

\* C3: with a layout L1 saved, restoreLayout(L2) for a never-saved L2 # L1
\* raises nothing and restores no geometry or state on any widget.
C3_RestoreUnsavedIsNoOp ==
    (/\ last.op = "restoreLayout"
     /\ ~StoredLayout(last.arg)
     /\ \E l1 \in Layouts \ {last.arg} : StoredLayout(l1))
    => (last.exc = "none" /\ last.calls = {})

\* C4: recent_files is no longer than max_files, is most-recent-first, and
\* holds exactly the min(max_files, length) most recently added paths.
C4_RecentFilesProperty ==
    pc = "ready" =>
        LET rf == recent_files(store, group(groupStack), max_files)
            k == IF max_files < Len(Files) THEN max_files ELSE Len(Files)
        IN  /\ Len(rf) <= max_files
            /\ Len(rf) = k
            /\ \A i \in 1..k : rf[i] = Files[Len(Files) - i + 1]
            /\ (last.op = "addRecentFile" /\ max_files >= 1) => rf[1] = last.arg

\* C4 witness: more paths are stored than max_files allows to be shown
C4_Witness ==
    /\ pc = "ready"
    /\ last.op = "addRecentFile"
    /\ max_files >= 2
    /\ Len(Files) > max_files

\* C5, first part: getDefaultValue(key, g1..gn) is the value at the absolute
\* key g1/../gn/default/key, or None, whatever group is open.
C5_AbsoluteLookup ==
    (last.op = "getDefaultValue" /\ last.exc = "none") =>
        last.ret = value(store, <<>>, last.arg[2] \o <<"default", last.arg[1]>>)

\* C5, second part: constructed on a file without a Preferences group, the
\* object holds every declared default under Preferences.
C5_DeclaredDefaults ==
    (last.op = "__init__" /\ last.arg = FALSE) =>
        /\ pc = "ready"
        /\ \A o \in Options :
              "default" \in DOMAIN SCENEGRAPH_PREFERENCES[o] =>
                  DefaultValueOf(store, groupStack, o, <<"Preferences">>)
                      = SCENEGRAPH_PREFERENCES[o].default

\* the one-open-group case of C5's first part, which the code does satisfy
C5_OneGroupOpen ==
    (last.op = "getDefaultValue" /\ last.exc = "none" /\ groupStack = <<>>) =>
        last.ret = value(store, <<>>, last.arg[2] \o <<"default", last.arg[1]>>)

\* C5: getDefaultValue returns the value stored at the absolute key
\* g1/../gn/default/key (None when absent) regardless of the open group, and
\* after construction on a store without a Preferences group it returns the
\* declared default of every preference option.
C5_DefaultValue == C5_AbsoluteLookup /\ C5_DeclaredDefaults

\* C6: restoreLayout(L) of a saved layout L puts the main window back to the
\* geometry and state saved under L and every dock widget to the geometry
\* saved under <dock>/geometry/L.
C6_RoundTrip ==
    (/\ last.op = "restoreLayout"
     /\ <<"MainWindow", "geometry", last.arg>> \in allKeys(store, group(groupStack))
     /\ <<"MainWindow", "windowState", last.arg>> \in allKeys(store, group(groupStack)))
    => /\ last.exc = "none"
       /\ winGeom = value(store, group(groupStack), <<"MainWindow", "geometry", last.arg>>).v
       /\ winState = value(store, group(groupStack), <<"MainWindow", "windowState", last.arg>>).v
       /\ \A d \in Range(docks) :
             <<d, "geometry", last.arg>> \in allKeys(store, group(groupStack)) =>
                 dockGeom[d] = value(store, group(groupStack), <<d, "geometry", last.arg>>).v

\* the main-window half of C6, which the code does satisfy
C6_MainWindowOnly ==
    (/\ last.op = "restoreLayout"
     /\ <<"MainWindow", "geometry", last.arg>> \in allKeys(store, group(groupStack))
     /\ <<"MainWindow", "windowState", last.arg>> \in allKeys(store, group(groupStack)))
    => /\ last.exc = "none"
       /\ winGeom = value(store, group(groupStack), <<"MainWindow", "geometry", last.arg>>).v
       /\ winState = value(store, group(groupStack), <<"MainWindow", "windowState", last.arg>>).v

\* C3 without dock widgets, which the code does satisfy
C3_NoDocks == docks = <<>> => C3_RestoreUnsavedIsNoOp

====
